---- MODULE Spec2Model ----
(***************************************************************************)
(* The ddcutil output parser display_detect_parse.py, in its two copies:   *)
(*   src/Scripts/display_detect_parse.py       (variables without suffix)  *)
(*   src/src/Scripts/display_detect_parse.py   (variables with suffix D,   *)
(*                                              the documented copy)       *)
(* Strings are sequences of one-character strings, so that strip, split,   *)
(* startswith, splitlines and json.dumps are computed character by         *)
(* character as Python computes them.                                      *)
(***************************************************************************)
EXTENDS Integers, Sequences, FiniteSets, TLC

VARIABLES text,
          pc, lines, i, res, stdout, ret,
          pcD, linesD, iD, resD, stdoutD, retD

varsA == <<pc, lines, i, res, stdout, ret>>
varsD == <<pcD, linesD, iD, resD, stdoutD, retD>>
vars == <<text, pc, lines, i, res, stdout, ret,
          pcD, linesD, iD, resD, stdoutD, retD>>

\* The input text is a concatenation of at most MaxFrags fragments.
MaxFrags == 4

\* The literal 'Model:' of line.startswith('Model:') and line.split('Model:').
Marker == <<"M", "o", "d", "e", "l", ":">>

\* The fragments input texts are built from: the marker, the marker without
\* its colon, a blank, the two line terminators, a letter and a double quote.
Frags == { Marker, <<"M", "o", "d", "e", "l">>, <<" ">>, <<"\n">>, <<"\r">>,
           <<"A">>, <<"\"">> }

RECURSIVE Concat(_)
Concat(fs) == IF fs = <<>> THEN <<>> ELSE Head(fs) \o Concat(Tail(fs))

Texts == { Concat(fs) : fs \in UNION { [1..n -> Frags] : n \in 0..MaxFrags } }

Min(S) == CHOOSE x \in S : \A y \in S : x <= y
Max(S) == CHOOSE x \in S : \A y \in S : x >= y

--------------------------------------------------------------------------
\* Python's built-in string operations, as the script uses them.

\* str.isspace of one character (the whitespace str.strip() removes).
IsSpace(c) == c \in {" ", "\t", "\n", "\r", "\f"}

\* The line boundaries of str.splitlines().
IsLineBreak(c) == c \in {"\n", "\r", "\f"}

\* text.splitlines(): split at line boundaries, "\r\n" being one boundary;
\* the terminators are dropped and a final terminator opens no empty line.
RECURSIVE splitlines(_)
splitlines(t) ==
    IF t = <<>> THEN <<>>
    ELSE LET brk == { k \in 1..Len(t) : IsLineBreak(t[k]) } IN
         IF brk = {} THEN <<t>>
         ELSE LET k == Min(brk)
                  n == IF t[k] = "\r" /\ k < Len(t) /\ t[k + 1] = "\n"
                       THEN k + 1 ELSE k
              IN  <<SubSeq(t, 1, k - 1)>> \o splitlines(SubSeq(t, n + 1, Len(t)))

\* s.strip(): s without its leading and trailing whitespace.
strip(s) ==
    LET ns == { k \in 1..Len(s) : ~IsSpace(s[k]) } IN
    IF ns = {} THEN <<>> ELSE SubSeq(s, Min(ns), Max(ns))

startswithNoColon(s, p) ==
    /\ Len(s) >= Len(p) - 1
    /\ SubSeq(s, 1, Len(p) - 1) = SubSeq(p, 1, Len(p) - 1)

contains(s, p) ==
    \E k \in 1..(Len(s) - Len(p) + 1) : SubSeq(s, k, k + Len(p) - 1) = p

\* s.startswith(p)
startswith(s, p) == Len(s) >= Len(p) /\ SubSeq(s, 1, Len(p)) = p

\* s.split(sep) without maxsplit: split at EVERY occurrence of sep, left to
\* right, non-overlapping.
RECURSIVE split(_, _)
split(s, sep) ==
    LET occ == { k \in 1..(Len(s) - Len(sep) + 1) :
                     SubSeq(s, k, k + Len(sep) - 1) = sep } IN
    IF occ = {} THEN <<s>>
    ELSE LET k == Min(occ) IN
         <<SubSeq(s, 1, k - 1)>> \o split(SubSeq(s, k + Len(sep), Len(s)), sep)

appendUnique(r, m) ==
    IF \E k \in 1..Len(r) : r[k] = m THEN r ELSE Append(r, m)

\* res.append(model)
append(r, m) == Append(r, m)

\* The JSON string escapes of json.dumps (ensure_ascii) for one character.
escape(c) ==
    CASE c = "\"" -> <<"\\", "\"">>
      [] c = "\\" -> <<"\\", "\\">>
      [] c = "\n" -> <<"\\", "n">>
      [] c = "\r" -> <<"\\", "r">>
      [] c = "\t" -> <<"\\", "t">>
      [] c = "\f" -> <<"\\", "f">>
      [] OTHER -> <<c>>

RECURSIVE dumpsStr(_)
dumpsStr(s) == IF s = <<>> THEN <<>> ELSE escape(Head(s)) \o dumpsStr(Tail(s))

RECURSIVE dumpsItems(_)
dumpsItems(r) ==
    IF r = <<>> THEN <<>>
    ELSE <<"\"">> \o dumpsStr(Head(r)) \o <<"\"">>
         \o (IF Len(r) > 1 THEN <<",", " ">> ELSE <<>>) \o dumpsItems(Tail(r))

dumpsNullIfEmpty(r) ==
    IF r = <<>> THEN <<"n", "u", "l", "l">>
    ELSE <<"[">> \o dumpsItems(r) \o <<"]">>

\* json.dumps(res) of a list of strings: "[" + ", ".join(items) + "]".
dumps(r) == <<"[">> \o dumpsItems(r) \o <<"]">>

\* What main hands back: Python's None (the function has no return statement).
None == [kind |-> "None", val |-> <<>>]
Unset == [kind |-> "unset", val |-> <<>>]

\* The text of the diagnostic print, f"Error decoding JSON: {e}".
ErrPrefix == <<"E", "r", "r", "o", "r", " ", "d", "e", "c", "o", "d", "i",
               "n", "g", " ", "J", "S", "O", "N", ":", " ">>

--------------------------------------------------------------------------
\* src/Scripts/display_detect_parse.py

modelAfterFirst(line) ==
    LET occ == { k \in 1..(Len(line) - Len(Marker) + 1) :
                     SubSeq(line, k, k + Len(Marker) - 1) = Marker } IN
    IF occ = {} THEN <<>>
    ELSE strip(SubSeq(line, Min(occ) + Len(Marker), Len(line)))

\* model = line.split('Model:')[1].strip()   (Python's [1] is TLA+'s [2])
model(line) == strip(split(line, Marker)[2])

\* The body of the try statement on one stripped, non-empty line: the
\* exception it raises, if any, and the list it leaves.
tryBlock(line, r) ==
    IF startswith(line, Marker)
    THEN IF Len(split(line, Marker)) < 2
         THEN [exc |-> "IndexError", res |-> r]
         ELSE [exc |-> "none", res |-> append(r, model(line))]
    ELSE [exc |-> "none", res |-> r]

\* main is called: res = [] and the for statement evaluates text.splitlines().
Start ==
    /\ pc = "start"
    /\ pc' = "loop"
    /\ res' = <<>>
    /\ lines' = splitlines(text)
    /\ i' = 1
    /\ UNCHANGED <<text, stdout, ret, varsD>>

\* One iteration of the for loop, on lines[i].
Loop ==
    /\ pc = "loop"
    /\ i <= Len(lines)
    /\ LET line == strip(lines[i]) IN
       IF line = <<>>
       THEN /\ i' = i + 1
            /\ UNCHANGED <<pc, res, stdout>>
       ELSE LET r == tryBlock(line, res) IN
            IF r.exc = "none"
            THEN /\ res' = r.res
                 /\ i' = i + 1
                 /\ UNCHANGED <<pc, stdout>>
            ELSE IF r.exc = "JSONDecodeError"
            THEN /\ stdout' = Append(stdout, ErrPrefix)
                 /\ i' = i + 1
                 /\ UNCHANGED <<pc, res>>
            ELSE /\ pc' = "crashed"
                 /\ UNCHANGED <<i, res, stdout>>
    /\ UNCHANGED <<text, lines, ret, varsD>>

\* The loop is exhausted: print(json.dumps(res)), and main returns None.
PrintRes ==
    /\ pc = "loop"
    /\ i > Len(lines)
    /\ stdout' = Append(stdout, dumps(res))
    /\ ret' = None
    /\ pc' = "done"
    /\ UNCHANGED <<text, lines, i, res, varsD>>

--------------------------------------------------------------------------
\* src/src/Scripts/display_detect_parse.py

modelDLast(line) == LET parts == split(line, Marker) IN strip(parts[Len(parts)])

\* model = line.split('Model:')[1].strip()
modelD(line) == strip(split(line, Marker)[2])

tryBlockD(line, r) ==
    IF startswith(line, Marker)
    THEN IF Len(split(line, Marker)) < 2
         THEN [exc |-> "IndexError", res |-> r]
         ELSE [exc |-> "none", res |-> append(r, modelD(line))]
    ELSE [exc |-> "none", res |-> r]

StartD ==
    /\ pcD = "start"
    /\ pcD' = "loop"
    /\ resD' = <<>>
    /\ linesD' = splitlines(text)
    /\ iD' = 1
    /\ UNCHANGED <<text, stdoutD, retD, varsA>>

LoopD ==
    /\ pcD = "loop"
    /\ iD <= Len(linesD)
    /\ LET line == strip(linesD[iD]) IN
       IF line = <<>>
       THEN /\ iD' = iD + 1
            /\ UNCHANGED <<pcD, resD, stdoutD>>
       ELSE LET r == tryBlockD(line, resD) IN
            IF r.exc = "none"
            THEN /\ resD' = r.res
                 /\ iD' = iD + 1
                 /\ UNCHANGED <<pcD, stdoutD>>
            ELSE IF r.exc = "JSONDecodeError"
            THEN /\ stdoutD' = Append(stdoutD, ErrPrefix)
                 /\ iD' = iD + 1
                 /\ UNCHANGED <<pcD, resD>>
            ELSE /\ pcD' = "crashed"
                 /\ UNCHANGED <<iD, resD, stdoutD>>
    /\ UNCHANGED <<text, linesD, retD, varsA>>

PrintResD ==
    /\ pcD = "loop"
    /\ iD > Len(linesD)
    /\ stdoutD' = Append(stdoutD, dumps(resD))
    /\ retD' = None
    /\ pcD' = "done"
    /\ UNCHANGED <<text, linesD, iD, resD, varsA>>

--------------------------------------------------------------------------
\* input_text = sys.stdin.read(): any text; neither copy has started.
Init ==
    /\ text \in Texts
    /\ pc = "start" /\ lines = <<>> /\ i = 0 /\ res = <<>>
    /\ stdout = <<>> /\ ret = Unset
    /\ pcD = "start" /\ linesD = <<>> /\ iD = 0 /\ resD = <<>>
    /\ stdoutD = <<>> /\ retD = Unset

Next == Start \/ Loop \/ PrintRes \/ StartD \/ LoopD \/ PrintResD

Spec == Init /\ [][Next]_vars

--------------------------------------------------------------------------
\* What the properties below speak of, stated without the script's operators.

IsWs(c) == c = " " \/ c = "\t" \/ c = "\n" \/ c = "\r" \/ c = "\f"

RECURSIVE Trim(_)
Trim(s) ==
    IF s = <<>> THEN s
    ELSE IF IsWs(s[1]) THEN Trim(Tail(s))
    ELSE IF IsWs(s[Len(s)]) THEN Trim(SubSeq(s, 1, Len(s) - 1))
    ELSE s

\* The marker stands in s at position k.
MarkerAt(s, k) ==
    /\ k + Len(Marker) - 1 <= Len(s)
    /\ \A j \in 1..Len(Marker) : s[k + j - 1] = Marker[j]

HasMarker(s) == \E k \in 1..Len(s) : MarkerAt(s, k)

\* A model line: after trimming it starts with the marker.
IsModelLine(l) == MarkerAt(Trim(l), 1)

\* Everything after the first marker of a model line, trimmed.
AfterFirst(l) ==
    LET t == Trim(l) IN Trim(SubSeq(t, Len(Marker) + 1, Len(t)))

\* The text between the first marker of a model line and the next one (the
\* end of the line when there is no other), trimmed.
BetweenMarkers(l) ==
    LET t    == Trim(l)
        rest == SubSeq(t, Len(Marker) + 1, Len(t))
        occ  == { k \in 1..Len(rest) : MarkerAt(rest, k) }
    IN  Trim(IF occ = {} THEN rest ELSE SubSeq(rest, 1, Min(occ) - 1))

\* The entries of the model lines among ls[1..n], in the order of the lines.
RECURSIVE EntriesUpTo(_, _)
EntriesUpTo(ls, n) ==
    IF n = 0 THEN <<>>
    ELSE EntriesUpTo(ls, n - 1)
         \o (IF IsModelLine(ls[n]) THEN <<BetweenMarkers(ls[n])>> ELSE <<>>)

IsPrefix(a, b) == Len(a) <= Len(b) /\ \A k \in 1..Len(a) : a[k] = b[k]

Running(p) == p \in {"loop", "done"}

--------------------------------------------------------------------------
\* C1: after a model line has been processed, the entry appended last is
\* everything after the FIRST "Model:" of the trimmed line, trimmed; a later
\* "Model:" in the line stays part of the entry.
C1Entry(p, ls, n, r) ==
    (Running(p) /\ n > 1 /\ IsModelLine(ls[n - 1]))
        => (r # <<>> /\ r[Len(r)] = AfterFirst(ls[n - 1]))

C1_EntryIsAllAfterFirstMarker ==
    C1Entry(pc, lines, i, res) /\ C1Entry(pcD, linesD, iD, resD)

\* C2: the result list is as long as the number of lines processed so far
\* that are model lines; when main prints, every line of the text has been
\* processed, so the list is as long as the number of model lines of the text.
C2Length(p, ls, n, r) ==
    /\ Running(p) =>
           Len(r) = Cardinality({ k \in 1..(n - 1) : IsModelLine(ls[k]) })
    /\ p = "done" => n = Len(ls) + 1

C2_LengthIsModelLineCount ==
    C2Length(pc, lines, i, res) /\ C2Length(pcD, linesD, iD, resD)

C2_Witness ==
    /\ pc = "done"
    /\ \E k \in 1..Len(lines) : lines[k] = Marker
    /\ \E k \in 1..Len(lines) : ~IsModelLine(lines[k])
    /\ \E k \in 1..Len(res) : res[k] = <<>>

\* C3: the result list holds the entries of the processed model lines in the
\* order of the lines, one entry per model line (equal names are kept), and a
\* step never changes or removes an entry already appended.
C3Order(p, ls, n, r) == Running(p) => r = EntriesUpTo(ls, n - 1)

C3_OrderAndDuplicatesPreserved ==
    /\ [](C3Order(pc, lines, i, res) /\ C3Order(pcD, linesD, iD, resD))
    /\ [][IsPrefix(res, res') /\ IsPrefix(resD, resD')]_vars

C3_Witness ==
    /\ pc = "done"
    /\ Len(res) = 2
    /\ res[1] # res[2]
    /\ res[1] # <<>>

\* C4: processing a line that is not a model line (blank, or non-blank without
\* the marker at its start, the marker possibly further in) leaves the result
\* list unchanged.
C4Frame(p, ls, n, r, r2) ==
    (p = "loop" /\ n <= Len(ls) /\ ~IsModelLine(ls[n])) => r2 = r

C4_OtherLinesLeaveResultUnchanged ==
    [][C4Frame(pc, lines, i, res, res')
       /\ C4Frame(pcD, linesD, iD, resD, resD')]_vars

C4_Witness ==
    /\ Running(pcD)
    /\ iD > 2
    /\ Trim(linesD[1]) = <<>>
    /\ HasMarker(linesD[iD - 1])
    /\ ~IsModelLine(linesD[iD - 1])
    /\ resD = <<>>

\* C5: main never fails and always terminates: until it is done it can take
\* a step, every step of it moves it forward (to the loop, to the next line,
\* to the end), it writes nothing before every line has been processed, and
\* it ends having written exactly one line, the JSON array of the result list.
C5Safe(p, ls, n, r, out) ==
    /\ p # "crashed"
    /\ p # "done" => out = <<>>
    /\ p = "done" => (n = Len(ls) + 1 /\ out = <<dumps(r)>>)

\* main is not done and one of its steps can be taken: it has not started,
\* or it stands on a line of the text, or right after the last one.
C5CanStep(p, ls, n) ==
    \/ p = "start"
    \/ p = "loop" /\ n \in 1..(Len(ls) + 1)

\* How far main is: 0 before it starts, n on line n, past every line at the end.
C5Rank(p, ls, n) ==
    IF p = "start" THEN 0 ELSE IF p = "done" THEN Len(ls) + 2 ELSE n

C5Step(p, ls, n, p2, ls2, n2) ==
    <<p2, ls2, n2>> # <<p, ls, n>>
        => /\ C5Rank(p2, ls2, n2) = C5Rank(p, ls, n) + 1
           /\ C5Rank(p2, ls2, n2) <= Len(splitlines(text)) + 2

C5_TerminatesWithOneWrite ==
    /\ [](/\ C5Safe(pc, lines, i, res, stdout)
          /\ C5Safe(pcD, linesD, iD, resD, stdoutD)
          /\ (pc = "done" \/ C5CanStep(pc, lines, i))
          /\ (pcD = "done" \/ C5CanStep(pcD, linesD, iD)))
    /\ [][/\ C5Step(pc, lines, i, pc', lines', i')
          /\ C5Step(pcD, linesD, iD, pcD', linesD', iD')]_vars

C5_Witness ==
    /\ pc = "done" /\ pcD = "done"
    /\ Len(lines) >= 3
    /\ Len(stdout) = 1
    /\ Len(res) >= 1

\* C6: an input without a model line (the empty input among them) makes main
\* print exactly [].
C6Empty(p, ls, out) ==
    (p = "done" /\ \A k \in 1..Len(ls) : ~IsModelLine(ls[k]))
        => out = << <<"[", "]">> >>

C6_NoModelLineGivesEmptyArray ==
    C6Empty(pc, lines, stdout) /\ C6Empty(pcD, linesD, stdoutD)

C6_Witness ==
    /\ pc = "done" /\ pcD = "done"
    /\ text = <<" ", "\n", "\n", " ">>
    /\ stdout = << <<"[", "]">> >>

\* C7: main returns the JSON array of the extracted names to its caller.
C7Returns(p, r, rv) == p = "done" => rv = [kind |-> "str", val |-> dumps(r)]

C7_ReturnsJsonArray ==
    C7Returns(pc, res, ret) /\ C7Returns(pcD, resD, retD)

\* C8: the try block raises nothing: no run crashes, the diagnostic is never
\* printed, and where the prefix test passes the split has an element [1].
C8NoRaise(p, ls, out) ==
    /\ p # "crashed"
    /\ \A k \in 1..Len(out) : ~IsPrefix(ErrPrefix, out[k])
    /\ \A k \in 1..Len(ls) :
           startswith(strip(ls[k]), Marker)
               => Len(split(strip(ls[k]), Marker)) >= 2

C8_ErrorBranchUnreachable ==
    C8NoRaise(pc, lines, stdout) /\ C8NoRaise(pcD, linesD, stdoutD)

C8_Witness ==
    /\ pc = "done"
    /\ \E k \in 1..Len(lines) : IsModelLine(lines[k])
    /\ \E k \in 1..Len(lines) :
           /\ ~IsModelLine(lines[k])
           /\ IsPrefix(SubSeq(Marker, 1, Len(Marker) - 1), Trim(lines[k]))

\* C9: the two copies agree: having processed the same number of lines they
\* hold the same result list, and they print the same.
C9_CopiesEquivalent ==
    /\ (Running(pc) /\ Running(pcD) /\ i = iD) => res = resD
    /\ pc = pcD => stdout = stdoutD
    /\ (pc = "done" /\ pcD = "done") => (res = resD /\ stdout = stdoutD)

C9_Witness ==
    /\ pc = "done" /\ pcD = "done"
    /\ \E k \in 1..Len(lines) : HasMarker(SubSeq(lines[k], 2, Len(lines[k])))
    /\ res # <<>>
    /\ res = resD

\* C10: no entry of a result list starts or ends with whitespace, holds a
\* line break, or holds "Model:".
C10Entries(r) ==
    \A k \in 1..Len(r) :
        /\ r[k] # <<>> => (~IsWs(r[k][1]) /\ ~IsWs(r[k][Len(r[k])]))
        /\ \A j \in 1..Len(r[k]) : r[k][j] \notin {"\n", "\r", "\f"}
        /\ ~HasMarker(r[k])

C10_EntriesCleanAndMarkerFree == C10Entries(res) /\ C10Entries(resD)

C10_Witness ==
    /\ Running(pc)
    /\ i > 1
    /\ IsModelLine(lines[i - 1])
    /\ HasMarker(SubSeq(Trim(lines[i - 1]), 2, Len(Trim(lines[i - 1]))))
    /\ res # <<>>
    /\ res[Len(res)] # <<>>

====
